---------------------------- MODULE Spec2Model ----------------------------
(***************************************************************************)
(* Secure Task Manager: the Express/SQLite task store (server) and the     *)
(* browser client that mirrors it (app/public/script.js).                  *)
(*                                                                         *)
(* Strings are modelled by what the code does with them.  A title is a     *)
(* run-length encoded string: a sequence of runs <<c, n>>, the unit c      *)
(* repeated n times, where a unit is one character (" ", "a") or one of    *)
(* the two literals the validator looks for ("<script", "javascript:").    *)
(* An id path parameter is a sequence of single characters.                *)
(***************************************************************************)
EXTENDS Integers, Sequences, FiniteSets

VARIABLES
    rows,       \* the tasks table: a set of rows [id, title, completed, created_at]
    seq,        \* sqlite_sequence for tasks: the largest rowid ever assigned
    now,        \* the wall clock, in whole seconds (CURRENT_TIMESTAMP's unit)
    res,        \* the last request made straight to the API: its input, the table
                \* before it ran, and its response
    issued,     \* history: the ids returned by successful creations, in order
    parity,     \* history: per id, the number of successful toggles modulo 2
    deleted,    \* history: the ids of the rows removed by successful deletions
    tasks,      \* client: the global `tasks` array (the mirror)
    errorShown, \* client: errorMessage carries the class 'show'
    console,    \* client: the last line the client wrote to the console
    loaded,     \* client: DOMContentLoaded has fired
    nreq,       \* client: the number of fetch calls made so far
    requests,   \* client requests on their way to the server
    responses   \* responses (or fetch rejections) on their way to the client

vars == <<rows, seq, now, res, issued, parity, deleted, tasks, errorShown,
          console, loaded, nreq, requests, responses>>

clientVars == <<tasks, errorShown, console, loaded, nreq, requests, responses>>

---------------------------------------------------------------------------
(* Bounds of the model *)

MaxId == 3
MaxClock == 1
MaxReq == 4

(* Program constants *)

MaxTitleLen == 200

---------------------------------------------------------------------------
(* Strings *)

Space == " "
ScriptTag == "<script"
JsScheme == "javascript:"

\* The number of characters of one unit.
UnitLen(c) == IF c = ScriptTag THEN 7 ELSE IF c = JsScheme THEN 11 ELSE 1

RECURSIVE StrLen(_)
\* String.prototype.length
StrLen(s) == IF s = <<>> THEN 0 ELSE UnitLen(Head(s)[1]) * Head(s)[2] + StrLen(Tail(s))

RECURSIVE TrimStart(_)
TrimStart(s) == IF s # <<>> /\ Head(s)[1] = Space THEN TrimStart(Tail(s)) ELSE s

RECURSIVE TrimEnd(_)
TrimEnd(s) ==
    IF s # <<>> /\ s[Len(s)][1] = Space THEN TrimEnd(SubSeq(s, 1, Len(s) - 1)) ELSE s

\* String.prototype.trim
Trim(s) == TrimEnd(TrimStart(s))

\* String.prototype.includes, for the two literals the validator looks for
Includes(s, lit) == \E i \in 1..Len(s) : s[i][1] = lit

\* A JSON value of the request body: its typeof, its text when it is a string,
\* its number when it is a number.
Str(s) == [type |-> "string", str |-> s, num |-> 0]
Undefined == [type |-> "undefined", str |-> <<>>, num |-> 0]
Num(n) == [type |-> "number", str |-> <<>>, num |-> n]

\* JavaScript's ToBoolean, for the values above
Truthy(v) ==
    CASE v.type = "string" -> v.str # <<>>
      [] v.type = "number" -> v.num # 0
      [] OTHER -> FALSE

Digits == {"0", "1", "2", "3", "4", "5", "6", "7", "8", "9"}

\* /^\d+$/.test(id)  (/^\d$/ would take one digit only)
IsSingleDigit(id) == Len(id) = 1 /\ id[1] \in Digits
IsDigits(id) == Len(id) >= 1 /\ \A i \in 1..Len(id) : id[i] \in Digits

DigitValue(c) ==
    CASE c = "0" -> 0 [] c = "1" -> 1 [] c = "2" -> 2 [] c = "3" -> 3 [] c = "4" -> 4
      [] c = "5" -> 5 [] c = "6" -> 6 [] c = "7" -> 7 [] c = "8" -> 8 [] c = "9" -> 9

RECURSIVE DecimalValue(_)
\* The integer SQLite compares with the INTEGER PRIMARY KEY column when the
\* bound parameter is a text of decimal digits (column affinity INTEGER).
DecimalValue(id) ==
    IF id = <<>> THEN 0
    ELSE 10 * DecimalValue(SubSeq(id, 1, Len(id) - 1)) + DigitValue(id[Len(id)])

---------------------------------------------------------------------------
(* The task store: src/unnamed/part_000 *)

NoTask == [id |-> 0, title |-> <<>>, completed |-> FALSE, created_at |-> 0]

\* What a handler sends: res.status(...).json(...)
Reply(status, error, task, list) ==
    [status |-> status, error |-> error, task |-> task, list |-> list]

Outcome(newRows, newSeq, reply) == [rows |-> newRows, seq |-> newSeq, reply |-> reply]

validateTaskTitle(title) ==
    IF ~Truthy(title) \/ title.type # "string" THEN FALSE
    ELSE IF StrLen(title.str) < 1 \/ StrLen(title.str) > MaxTitleLen THEN FALSE
    ELSE IF Includes(title.str, ScriptTag) \/ Includes(title.str, JsScheme) THEN FALSE
    ELSE TRUE

MaxOf(S) == IF S = {} THEN 0 ELSE CHOOSE m \in S : \A x \in S : x <= m

\* id INTEGER PRIMARY KEY AUTOINCREMENT: one more than the largest rowid the
\* table has ever held (sqlite_sequence), also after that row is deleted.
\* (Without AUTOINCREMENT: one more than the largest rowid in the table.)
NextRowidReused == MaxOf({r.id : r \in rows}) + 1
NextRowid == MaxOf({seq} \cup {r.id : r \in rows}) + 1

\* ORDER BY created_at DESC: every order of the rows in which created_at never
\* increases; the order of rows with equal created_at is left to the engine.
OrderByCreatedAtDesc(table) ==
    LET n == Cardinality(table) IN
    { s \in [1..n -> table] :
        /\ \A i, j \in 1..n : i # j => s[i] # s[j]
        /\ \A i, j \in 1..n : i < j => s[i].created_at >= s[j].created_at }

\* app.get('/api/tasks'); `list` is the order the engine returned
apiGetTasks(list, err) ==
    IF err THEN Outcome(rows, seq, Reply(500, "Database error", NoTask, <<>>))
    ELSE Outcome(rows, seq, Reply(200, "", NoTask, list))

\* app.post('/api/tasks')
apiPostTasks(title, err) ==
    IF ~validateTaskTitle(title)
    THEN Outcome(rows, seq, Reply(400, "Invalid title", NoTask, <<>>))
    ELSE LET sanitizedTitle == Trim(title.str)
             lastID == NextRowid
         IN  IF err THEN Outcome(rows, seq, Reply(500, "Database error", NoTask, <<>>))
             ELSE Outcome(
                    rows \cup {[id |-> lastID, title |-> sanitizedTitle,
                                completed |-> FALSE, created_at |-> now]},
                    lastID,
                    Reply(200, "",
                          [id |-> lastID, title |-> sanitizedTitle,
                           completed |-> FALSE, created_at |-> now], <<>>))

\* WHERE id = ?  (with the clause left out, every row)
WhereAny(id) == rows
Where(id) == {r \in rows : r.id = DecimalValue(id)}

\* SET completed = NOT completed  (SET completed = TRUE would only ever set it)
UpdateCompleted(r) == [r EXCEPT !.completed = TRUE]
UpdateNotCompleted(r) == [r EXCEPT !.completed = ~r.completed]

\* this.changes === 0  (left unchecked, every statement counts as a change)
NoRowChangedUnchecked(changes) == FALSE
NoRowChanged(changes) == changes = 0

\* app.put('/api/tasks/:id/toggle')
apiToggle(id, err) ==
    IF ~IsDigits(id)
    THEN Outcome(rows, seq, Reply(400, "Invalid task ID", NoTask, <<>>))
    ELSE IF err THEN Outcome(rows, seq, Reply(500, "Database error", NoTask, <<>>))
    ELSE LET hit == Where(id)
             changes == Cardinality(hit)
         IN  IF NoRowChanged(changes)
             THEN Outcome(rows, seq, Reply(404, "Task not found", NoTask, <<>>))
             ELSE Outcome((rows \ hit) \cup {UpdateNotCompleted(r) : r \in hit}, seq,
                          Reply(200, "", NoTask, <<>>))


\* app.delete('/api/tasks/:id')
apiDelete(id, err) ==
    IF ~IsDigits(id)
    THEN Outcome(rows, seq, Reply(400, "Invalid task ID", NoTask, <<>>))
    ELSE IF err THEN Outcome(rows, seq, Reply(500, "Database error", NoTask, <<>>))
    ELSE LET hit == Where(id)
             changes == Cardinality(hit)
         IN  IF NoRowChanged(changes)
             THEN Outcome(rows, seq, Reply(404, "Task not found", NoTask, <<>>))
             ELSE Outcome(rows \ hit, seq, Reply(200, "", NoTask, <<>>))

---------------------------------------------------------------------------
(* Requests made straight to the API *)

RECURSIVE NumToStr(_)
\* Number to decimal text, as in a URL built from a number
NumToStr(n) ==
    IF n < 10 THEN <<CHOOSE c \in Digits : DigitValue(c) = n>>
    ELSE Append(NumToStr(n \div 10), CHOOSE c \in Digits : DigitValue(c) = n % 10)

\* n letters, n spaces
A(n) == <<"a", n>>
Sp(n) == <<Space, n>>

TitleInputs ==
    { Undefined, Num(0), Num(5), Str(<<>>), Str(<<Sp(1)>>), Str(<<Sp(MaxTitleLen + 1)>>),
      Str(<<A(1)>>), Str(<<Sp(1), A(1), Sp(1)>>),
      Str(<<A(MaxTitleLen)>>), Str(<<A(MaxTitleLen + 1)>>), Str(<<Sp(1), A(MaxTitleLen)>>),
      Str(<<A(1), <<ScriptTag, 1>>>>), Str(<<<<JsScheme, 1>>, A(1)>>) }

IdInputs ==
    { NumToStr(i) : i \in 1..(MaxId + 1) } \cup
    { <<"0", "1">>, <<"a", "b", "c">>, <<"-", "1">>, <<"1", ".", "5">>, <<" ", "1">> }

Request(op, title, id, reply) ==
    [op |-> op, title |-> title, id |-> id, before |-> rows, reply |-> reply]

NoReply == Reply(0, "", NoTask, <<>>)

\* The history of a handler's run: the ids handed out, the toggles that took effect
Issued(op, o) ==
    IF op = "create" /\ o.reply.status = 200 THEN Append(issued, o.reply.task.id) ELSE issued

Toggled(op, id, o) ==
    IF op = "toggle" /\ o.reply.status = 200
    THEN [i \in DOMAIN parity |-> IF i = DecimalValue(id) THEN 1 - parity[i] ELSE parity[i]]
    ELSE parity

Removed(op, id, o) ==
    IF op = "delete" /\ o.reply.status = 200
    THEN deleted \cup {DecimalValue(id)}
    ELSE deleted

Init ==
    /\ rows = {}
    /\ seq = 0
    /\ now = 0
    /\ res = [op |-> "none", title |-> Undefined, id |-> <<>>, before |-> {},
              reply |-> NoReply]
    /\ deleted = {}
    /\ issued = <<>>
    /\ parity = [i \in 1..(MaxId + 1) |-> 0]
    /\ tasks = <<>>
    /\ errorShown = FALSE
    /\ console = "Secure Task Manager loaded"
    /\ loaded = FALSE
    /\ nreq = 0
    /\ requests = {}
    /\ responses = {}

\* A second of wall-clock time passes
Tick ==
    /\ now < MaxClock
    /\ now' = now + 1
    /\ UNCHANGED <<rows, seq, res, issued, parity, deleted, clientVars>>

Commit(op, id, o) ==
    /\ rows' = o.rows
    /\ seq' = o.seq
    /\ issued' = Issued(op, o)
    /\ parity' = Toggled(op, id, o)
    /\ deleted' = Removed(op, id, o)

List(err) ==
    \E list \in (IF err THEN {<<>>} ELSE OrderByCreatedAtDesc(rows)) :
        LET o == apiGetTasks(list, err) IN
        /\ Commit("list", <<>>, o)
        /\ res' = Request("list", Undefined, <<>>, o.reply)
        /\ UNCHANGED <<now, clientVars>>

Create(title, err) ==
    LET o == apiPostTasks(title, err) IN
    /\ o.reply.status = 200 => seq < MaxId
    /\ Commit("create", <<>>, o)
    /\ res' = Request("create", title, <<>>, o.reply)
    /\ UNCHANGED <<now, clientVars>>

Toggle(id, err) ==
    LET o == apiToggle(id, err) IN
    /\ Commit("toggle", id, o)
    /\ res' = Request("toggle", Undefined, id, o.reply)
    /\ UNCHANGED <<now, clientVars>>

Delete(id, err) ==
    LET o == apiDelete(id, err) IN
    /\ Commit("delete", id, o)
    /\ res' = Request("delete", Undefined, id, o.reply)
    /\ UNCHANGED <<now, clientVars>>

Titles == { Str(<<Sp(1), A(1), Sp(1)>>) }

Next ==
    \/ Tick
    \/ \E err \in BOOLEAN : List(err)
    \/ \E title \in Titles, err \in BOOLEAN : Create(title, err)
    \/ \E id \in IdInputs, err \in BOOLEAN : Toggle(id, err)
    \/ \E id \in IdInputs, err \in BOOLEAN : Delete(id, err)

Spec == Init /\ [][Next]_vars

---------------------------------------------------------------------------
(* The client: src/app/public/script.js *)

\* What the user may type into the title field
TypedInputs ==
    { <<>>, <<Sp(1)>>, <<Sp(1), A(1), Sp(1)>>, <<Sp(1), A(MaxTitleLen + 1)>>,
      <<A(1), <<ScriptTag, 1>>>> }

Fetch(n, op, title, taskId) ==
    [n |-> n, op |-> op, title |-> title, taskId |-> taskId]

\* What a fetch call settles with: an HTTP response, or a rejection
Settled(req, rejected, reply) ==
    [n |-> req.n, op |-> req.op, taskId |-> req.taskId, rejected |-> rejected,
     reply |-> reply]

\* response.ok
Ok(r) == ~r.rejected /\ r.reply.status >= 200 /\ r.reply.status <= 299

Send(op, title, taskId) ==
    /\ nreq < MaxReq
    /\ nreq' = nreq + 1
    /\ requests' = requests \cup {Fetch(nreq + 1, op, title, taskId)}

\* document.addEventListener('DOMContentLoaded', ...): the page calls loadTasks()
DOMContentLoaded ==
    /\ ~loaded
    /\ loaded' = TRUE
    /\ Send("list", Undefined, 0)
    /\ UNCHANGED <<rows, seq, now, res, issued, parity, deleted, tasks, errorShown,
                   console, responses>>

\* hideError(): the timer set by showError fires, or the user edits the title
\* field ('input' listener)
hideError ==
    /\ errorShown
    /\ errorShown' = FALSE
    /\ UNCHANGED <<rows, seq, now, res, issued, parity, deleted, tasks, console,
                   loaded, nreq, requests, responses>>

\* addTask(), up to the fetch call; `value` is taskInput.value, what the user
\* has typed by then
addTask(value) ==
    /\ loaded
    /\ LET title == Trim(value) IN
       IF title = <<>> \/ StrLen(title) > MaxTitleLen
       THEN /\ errorShown' = TRUE
            /\ UNCHANGED <<nreq, requests>>
       ELSE /\ Send("create", Str(title), 0)
            /\ UNCHANGED errorShown
    /\ UNCHANGED <<rows, seq, now, res, issued, parity, deleted, tasks, console,
                   loaded, responses>>

\* toggleTask(taskId), up to the fetch call; the checkbox of a rendered task
toggleTask(taskId) ==
    /\ loaded
    /\ \E i \in 1..Len(tasks) : tasks[i].id = taskId
    /\ Send("toggle", Undefined, taskId)
    /\ UNCHANGED <<rows, seq, now, res, issued, parity, deleted, tasks, errorShown,
                   console, loaded, responses>>

\* deleteTask(taskId), up to the fetch call; the Delete button of a rendered task
deleteTask(taskId, confirmed) ==
    /\ loaded
    /\ \E i \in 1..Len(tasks) : tasks[i].id = taskId
    /\ IF confirmed THEN Send("delete", Undefined, taskId) ELSE UNCHANGED <<nreq, requests>>
    /\ UNCHANGED <<rows, seq, now, res, issued, parity, deleted, tasks, errorShown,
                   console, loaded, responses>>

\* The route a request reaches, run on the store
Handle(req, list, err) ==
    CASE req.op = "list" -> apiGetTasks(list, err)
      [] req.op = "create" -> apiPostTasks(req.title, err)
      [] req.op = "toggle" -> apiToggle(NumToStr(req.taskId), err)
      [] req.op = "delete" -> apiDelete(NumToStr(req.taskId), err)

\* The server handles one request that reached it
Serve(req, err) ==
    \E list \in (IF req.op = "list" /\ ~err THEN OrderByCreatedAtDesc(rows) ELSE {<<>>}) :
        LET o == Handle(req, list, err) IN
        /\ (req.op = "create" /\ o.reply.status = 200) => seq < MaxId
        /\ Commit(req.op, NumToStr(req.taskId), o)
        /\ requests' = requests \ {req}
        /\ responses' = responses \cup {Settled(req, FALSE, o.reply)}
        /\ UNCHANGED <<now, res, tasks, errorShown, console, loaded, nreq>>

\* The request never reaches the server: fetch rejects
FetchRejected(req) ==
    /\ requests' = requests \ {req}
    /\ responses' = responses \cup {Settled(req, TRUE, NoReply)}
    /\ UNCHANGED <<rows, seq, now, res, issued, parity, deleted, tasks, errorShown,
                   console, loaded, nreq>>

\* tasks.find(t => t.id === taskId): the position of the first match, or 0
Find(list, taskId) ==
    IF \E i \in 1..Len(list) : list[i].id = taskId
    THEN CHOOSE i \in 1..Len(list) :
            /\ list[i].id = taskId
            /\ \A j \in 1..(i - 1) : list[j].id # taskId
    ELSE 0

\* tasks.filter(task => task.id !== taskId)
RECURSIVE Without(_, _)
Without(list, taskId) ==
    IF list = <<>> THEN <<>>
    ELSE IF Head(list).id = taskId THEN Without(Tail(list), taskId)
    ELSE <<Head(list)>> \o Without(Tail(list), taskId)

\* The `tasks` array once the fetch of loadTasks has settled with r
loadTasksMirror(r) == IF Ok(r) THEN r.reply.list ELSE tasks

\* The `tasks` array once the fetch of addTask has settled with r
addTaskMirror(r) == IF Ok(r) THEN <<r.reply.task>> \o tasks ELSE tasks

\* The `tasks` array once the fetch of toggleTask has settled with r
\* (an optimistic client would flip the entry whatever the response)
toggleTaskOptimistic(r) ==
    LET i == Find(tasks, r.taskId) IN
    IF i # 0
    THEN [tasks EXCEPT ![i] = [@ EXCEPT !.completed = ~@]]
    ELSE tasks

toggleTaskMirror(r) ==
    LET i == Find(tasks, r.taskId) IN
    IF Ok(r) /\ i # 0
    THEN [tasks EXCEPT ![i] = [@ EXCEPT !.completed = ~@]]
    ELSE tasks

\* The `tasks` array once the fetch of deleteTask has settled with r
deleteTaskMirror(r) == IF Ok(r) THEN Without(tasks, r.taskId) ELSE tasks

\* loadTasks(), from the settled fetch on
loadTasksDone(r) ==
    /\ r.op = "list"
    /\ responses' = responses \ {r}
    /\ tasks' = loadTasksMirror(r)
    /\ errorShown' = IF Ok(r) THEN errorShown ELSE TRUE
    /\ console' = IF Ok(r) THEN console ELSE "Error loading tasks"
    /\ UNCHANGED <<rows, seq, now, res, issued, parity, deleted, loaded, nreq, requests>>

\* addTask(), from the settled fetch on
addTaskDone(r) ==
    /\ r.op = "create"
    /\ responses' = responses \ {r}
    /\ tasks' = addTaskMirror(r)
    /\ errorShown' = IF Ok(r) THEN FALSE ELSE TRUE
    /\ console' = IF Ok(r) THEN "Task added successfully" ELSE "Error adding task"
    /\ UNCHANGED <<rows, seq, now, res, issued, parity, deleted, loaded, nreq, requests>>

\* toggleTask(), from the settled fetch on
toggleTaskDone(r) ==
    /\ r.op = "toggle"
    /\ responses' = responses \ {r}
    /\ tasks' = toggleTaskMirror(r)
    /\ errorShown' = IF Ok(r) THEN errorShown ELSE TRUE
    /\ console' = IF Ok(r) THEN "Task toggled successfully" ELSE "Error toggling task"
    /\ UNCHANGED <<rows, seq, now, res, issued, parity, deleted, loaded, nreq, requests>>

\* deleteTask(), from the settled fetch on
deleteTaskDone(r) ==
    /\ r.op = "delete"
    /\ responses' = responses \ {r}
    /\ tasks' = deleteTaskMirror(r)
    /\ errorShown' = IF Ok(r) THEN errorShown ELSE TRUE
    /\ console' = IF Ok(r) THEN "Task deleted successfully" ELSE "Error deleting task"
    /\ UNCHANGED <<rows, seq, now, res, issued, parity, deleted, loaded, nreq, requests>>

\* One client, the only writer of the store.  Nothing the client does reads the
\* clock, so the steps happen within one second of it.
NextClient ==
    \/ DOMContentLoaded
    \/ hideError
    \/ \E value \in TypedInputs : addTask(value)
    \/ \E taskId \in 1..(MaxId + 1) : toggleTask(taskId)
    \/ \E taskId \in 1..(MaxId + 1), confirmed \in BOOLEAN : deleteTask(taskId, confirmed)
    \/ \E req \in requests, err \in BOOLEAN : Serve(req, err)
    \/ \E req \in requests : FetchRejected(req)
    \/ \E r \in responses : loadTasksDone(r)
    \/ \E r \in responses : addTaskDone(r)
    \/ \E r \in responses : toggleTaskDone(r)
    \/ \E r \in responses : deleteTaskDone(r)

SpecClient == Init /\ [][NextClient]_vars

\* The store under every kind of title a caller may post
NextTitles ==
    \/ Tick
    \/ \E err \in BOOLEAN : List(err)
    \/ \E title \in TitleInputs, err \in BOOLEAN : Create(title, err)
    \/ \E i \in 1..MaxId, err \in BOOLEAN : Delete(NumToStr(i), err)

SpecTitles == Init /\ [][NextTitles]_vars

---------------------------------------------------------------------------
(* The properties *)

RowIds(table) == {r.id : r \in table}

\* The title rule as the specification words it: a string whose trimmed length
\* is 1 to 200 and that holds neither literal.
TitleAcceptable(title) ==
    /\ title.type = "string"
    /\ StrLen(Trim(title.str)) >= 1
    /\ StrLen(Trim(title.str)) <= 200
    /\ ~Includes(title.str, ScriptTag)
    /\ ~Includes(title.str, JsScheme)

\* A request reached the storage layer and the storage layer failed
StorageFailed == res.reply.status = 500

\* C1: every title whose trimmed length is 1 to 200 and that holds no forbidden
\* literal, also one longer than 200 only by surrounding whitespace, is
\* created, and the table then holds an uncompleted task titled trim(t).
C1_AcceptableTitleCreated ==
    (res.op = "create" /\ TitleAcceptable(res.title) /\ ~StorageFailed)
        => /\ res.reply.status = 200
           /\ \E r \in rows : r.title = Trim(res.title.str) /\ ~r.completed

\* C2: a title that is absent, not a string, empty, empty after trimming, too
\* long after trimming or that holds a forbidden literal is refused with a
\* validation error and writes no row, so every stored title has 1 to 200
\* characters.
C2_UnacceptableTitleRefused ==
    /\ (res.op = "create" /\ ~TitleAcceptable(res.title))
            => res.reply.status = 400 /\ rows = res.before
    /\ \A r \in rows : StrLen(r.title) >= 1 /\ StrLen(r.title) <= 200

\* C3: the ids handed out by successful creations strictly increase, across
\* deletions too, and no two rows share an id.
C3_IdsStrictlyIncrease ==
    /\ \A i, j \in 1..Len(issued) : i < j => issued[i] < issued[j]
    /\ \A r1, r2 \in rows : r1.id = r2.id => r1 = r2
    /\ (res.op = "create" /\ res.reply.status = 200)
            => /\ res.reply.task.id = issued[Len(issued)]
               /\ res.reply.task.id \notin RowIds(res.before)

\* A creation succeeded after an earlier task had been deleted
C3_CreatedAfterDelete ==
    /\ res.op = "create" /\ res.reply.status = 200
    /\ Len(issued) >= 2
    /\ \E i \in 1..(Len(issued) - 1) : issued[i] \in deleted

\* C4: a listing holds every row, newest created_at first, rows of equal
\* created_at by descending id.
C4_ListNewestFirst ==
    (res.op = "list" /\ res.reply.status = 200)
        => LET list == res.reply.list IN
           /\ {list[i] : i \in 1..Len(list)} = rows
           /\ \A i, j \in 1..Len(list) : i < j =>
                \/ list[i].created_at > list[j].created_at
                \/ list[i].created_at = list[j].created_at /\ list[i].id > list[j].id

\* C5: a successful toggle of X negates completed of row X and changes nothing
\* else, so completed is true exactly when X was toggled an odd number of times.
C5_ToggleFlipsOnce ==
    /\ \A r \in rows : r.completed = (parity[r.id] = 1)
    /\ (res.op = "toggle" /\ res.reply.status = 200)
            => \E r \in res.before :
                /\ r.id = DecimalValue(res.id)
                /\ rows = (res.before \ {r}) \cup
                          {[id |-> r.id, title |-> r.title, completed |-> ~r.completed,
                            created_at |-> r.created_at]}

\* A second successful toggle has put a task back to not completed
C5_ToggledBack ==
    /\ res.op = "toggle" /\ res.reply.status = 200
    /\ \E r \in rows : r.id = DecimalValue(res.id) /\ ~r.completed /\ parity[r.id] = 0

\* A string of one or more decimal digits, as the specification words it
DecimalDigitsOnly(id) ==
    /\ Len(id) >= 1
    /\ \A i \in 1..Len(id) :
        id[i] \in {"0", "1", "2", "3", "4", "5", "6", "7", "8", "9"}

\* C6: a toggle or a deletion of a well-formed id that no row has answers
\* not-found and leaves the table as it was.
C6_MissingIdNotFound ==
    (/\ res.op \in {"toggle", "delete"}
     /\ DecimalDigitsOnly(res.id)
     /\ DecimalValue(res.id) \notin RowIds(res.before)
     /\ ~StorageFailed)
        => res.reply.status = 404 /\ rows = res.before

\* A toggle of an id that no row has was answered while the table held rows
C6_MissingIdAsked ==
    /\ res.op = "toggle"
    /\ DecimalDigitsOnly(res.id)
    /\ DecimalValue(res.id) \notin RowIds(res.before)
    /\ res.before # {}
    /\ res.reply.status = 404

\* C7: a toggle or a deletion of an id that is not a string of decimal digits
\* answers a request-format error, whatever the storage layer would do, and
\* leaves the table as it was; an id of decimal digits is never refused so.
C7_MalformedIdRefused ==
    res.op \in {"toggle", "delete"}
        => /\ ~DecimalDigitsOnly(res.id)
                => /\ res.reply.status = 400
                   /\ res.reply.error = "Invalid task ID"
                   /\ rows = res.before
           /\ DecimalDigitsOnly(res.id) => res.reply.status # 400

\* A deletion with a malformed id was refused while the table held rows
C7_MalformedIdAsked ==
    /\ res.op = "delete"
    /\ res.id = <<"-", "1">>
    /\ res.reply.status = 400
    /\ rows # {}

\* C8: a successful deletion of X removes row X and no other row; afterwards
\* no row ever has id X again, and a later toggle or deletion of X answers
\* not-found.
C8_DeletedStaysDeleted ==
    /\ (res.op = "delete" /\ res.reply.status = 200)
            => /\ DecimalValue(res.id) \in RowIds(res.before)
               /\ rows = {r \in res.before : r.id # DecimalValue(res.id)}
    /\ \A x \in deleted : x \notin RowIds(rows)
    /\ (/\ res.op \in {"toggle", "delete"}
        /\ DecimalDigitsOnly(res.id)
        /\ DecimalValue(res.id) \in deleted
        /\ ~StorageFailed)
            => \/ res.reply.status = 404
               \/ res.op = "delete" /\ DecimalValue(res.id) \in RowIds(res.before)

\* A deleted task was asked for again after a later creation, other rows remaining
C8_DeletedAskedAgain ==
    /\ res.op = "delete" /\ res.reply.status = 404
    /\ DecimalValue(res.id) \in deleted
    /\ \E r \in rows : r.id > DecimalValue(res.id)

\* The responses the client has taken in this step
Taken == responses \ responses'

\* A failed fetch: a validation error or a bad id, not-found, a storage error,
\* or a rejection
Failed(r) == r.rejected \/ r.reply.status \in {400, 404, 500}

InMirror(taskId) == \E i \in 1..Len(tasks) : tasks[i].id = taskId

\* C9: the mirror changes only when a successful response is taken in; a failed
\* add, toggle or delete leaves it as it was and shows an error; a successful
\* toggle of an id the mirror does not hold leaves it as it was and shows none.
C9_MirrorAfterConfirmation ==
    [][ /\ \A r \in Taken :
            (r.op \in {"create", "toggle", "delete"} /\ Failed(r))
                => tasks' = tasks /\ errorShown'
        /\ \A r \in Taken :
            (r.op = "toggle" /\ ~Failed(r) /\ ~InMirror(r.taskId))
                => /\ tasks' = tasks
                   /\ errorShown' = errorShown
                   /\ console' = "Task toggled successfully"
        /\ tasks' # tasks => \E r \in Taken : ~Failed(r)
      ]_vars

\* A toggle has failed while the mirror held a task
C9_ToggleFailed ==
    /\ console = "Error toggling task"
    /\ errorShown
    /\ tasks # <<>>

\* The mirror holds the rows of the table: the same ids, each once, each with
\* the title and the completed value of its row
MirrorMatchesStore ==
    /\ Len(tasks) = Cardinality(rows)
    /\ \A i, j \in 1..Len(tasks) : i # j => tasks[i].id # tasks[j].id
    /\ \A i \in 1..Len(tasks) :
        \E r \in rows :
            /\ r.id = tasks[i].id
            /\ r.title = tasks[i].title
            /\ r.completed = tasks[i].completed

\* C10: once every request of the client is answered and every response taken
\* in, the mirror holds the rows of the table.
C10_MirrorConsistentWhenQuiet ==
    (loaded /\ requests = {} /\ responses = {}) => MirrorMatchesStore

===========================================================================
